---- MODULE Spec2Model ----
(***************************************************************************)
(* Ingestion job pipeline of the PDF ingestor: the POST /ingest/ handler,  *)
(* the background task run_background_ingest with its global semaphore,    *)
(* the worker-pool call per file, and GET /ingest/status/{job_id}.         *)
(*                                                                         *)
(* The server is one asyncio event loop: the code of a coroutine between   *)
(* two suspension points runs without interleaving, so one action is one   *)
(* such stretch.  The suspension points of run_background_ingest are the   *)
(* wait for a semaphore slot (only when the semaphore is locked) and the   *)
(* wait for the worker-pool future of each file.  The worker-pool call     *)
(* itself runs in a thread, concurrently with the event loop.              *)
(***************************************************************************)
EXTENDS Integers, Sequences, FiniteSets, TLC

\* asyncio.Semaphore(4), main.py
GateCapacity == 4

\* Job identifiers a run may hand out (many small jobs).
MaxJobs == 5
\* Jobs of the workload with long file lists.
FewJobs == 2
\* Longest file list of one submission in that workload.
MaxFiles == 3
\* Jobs of the workload watched by status queries.
PollJobs == 2
\* Times one job id may be handed out again when the store is exercised alone.
MaxReuse == 1
\* Names in a directory path string.
MaxDepth == 2
\* Files of the largest request and of the largest directory.
MaxUploads == 11
\* Input fields of a request put together from single fields.
MaxFields == 2
\* Jobs of the workload that exercises request validation.
SubmitJobs == 1
\* Candidates the index returns for one query.
MaxHits == 3
\* Files of a job whose contents are looked at.
MaxTexts == 2

\* config.py: 50 * 1024 * 1024 bytes
MAX_UPLOAD_SIZE == 52428800
\* The per-request maximum the test suite and check_max_files name.
MAX_FILES_PER_UPLOAD == 10
\* config.py: the default threshold 1.5; scores are counted in thousandths.
SEARCH_SCORE_THRESHOLD == 1500

JobIds == 1..MaxJobs
\* An identifier no submission ever returns (the all-zero uuid of the tests).
UnknownId == 0
QueryIds == JobIds \cup {UnknownId}

\* JobStatus, models.py
PENDING == "pending"
PROCESSING == "processing"
COMPLETED == "completed"
FAILED == "failed"

\* Python's None, as the error of a record and as the body of a 404.
None == "<None>"

\* str(e) of the exceptions file processing can raise: one with a message
\* and one built without arguments, whose string form is empty.
ExceptionStrs == {"boom", ""}

\* Result of the worker-pool future of the file in flight.
FutPending == "<pending>"
FutOk == "<ok>"

VARIABLES
    job_status,        \* app.state.job_status: job id -> record
    pc,                \* position of each job's background task
    files_to_process,  \* the filenames handed to each job's task
    idx,               \* 1-based index of the file the task is at
    ingested,          \* the task's local list `ingested`
    future,            \* outcome of the pending run_in_executor call
    sem_value,         \* Semaphore._value
    sem_waiters,       \* Semaphore._waiters, in arrival order
    worked,            \* history: per job, each file a worker thread has
                       \* processed, with how the call ended
    acked,             \* history: job ids returned in a 202 acknowledgment
    poll,              \* last response of GET /ingest/status/{job_id}
    seen,              \* history: per id, the status its latest 200 response showed
    written,           \* history: per id, every record assigned to job_status[id]
    request,           \* the input fields of the last POST /ingest/ request
    response,          \* the last response of POST /ingest/
    dir_call,          \* the last call of get_pdf_files_from_directory
    search_out         \* the last POST /search/ request with its response

vars == <<job_status, pc, files_to_process, idx, ingested, future,
          sem_value, sem_waiters, worked, acked, poll, seen,
          written, request, response, dir_call, search_out>>

taskVars == <<pc, files_to_process, idx, ingested, future, worked>>
semVars == <<sem_value, sem_waiters>>
pollVars == <<poll, seen>>
\* What the job pipeline never touches.
clientVars == <<request, dir_call, search_out>>

----------------------------------------------------------------------------
\* Filenames are document numbers; a submission lists them in ascending or
\* in descending order, so that "submission order" differs from a sorted one.
Ascending(n) == [i \in 1..n |-> i]
Descending(n) == [i \in 1..n |-> n + 1 - i]
FileLists(maxLen) == UNION {{Ascending(n), Descending(n)} : n \in 1..maxLen}

Record(status, files, error) == [status |-> status, files |-> files, error |-> error]

\* dict item assignment d[k] = v: inserts k or overwrites its value.
SetItem(d, k, v) == [i \in (DOMAIN d) \cup {k} |-> IF i = k THEN v ELSE d[i]]

\* job_status[job_id] = record
Write(job_id, record) ==
    /\ job_status' = SetItem(job_status, job_id, record)
    /\ written' = [written EXCEPT ![job_id] = @ \cup {record}]

\* Identifiers that may repeat an earlier one.
uuid4Repeating == {id \in JobIds : id <= Cardinality(DOMAIN job_status) + 1}

\* str(uuid.uuid4()): an identifier no earlier submission was given.  The
\* unused identifiers are interchangeable, so the least one is taken.
uuid4 == {id \in JobIds : id = Cardinality(DOMAIN job_status) + 1}

----------------------------------------------------------------------------
\* asyncio.Semaphore (Python >= 3.11, which StrEnum in models.py requires).
\* A waiter is a job whose task is parked in acquire(); its future is
\* pending while pc = "acquiring" and done once pc = "woken".  A woken waiter
\* stays in _waiters until its task resumes.

\* locked() that never reports a full gate.
lockedNever == FALSE

\* Semaphore.locked(): no slot left, or somebody is already queued.
locked == sem_value = 0 \/ sem_waiters # <<>>

\* The first waiter whose future is not done, or 0.
FirstPending(waiters, p) ==
    LET cand == {k \in 1..Len(waiters) : p[waiters[k]] = "acquiring"}
    IN  IF cand = {} THEN 0
        ELSE waiters[CHOOSE k \in cand : \A m \in cand : k <= m]

\* Semaphore._wake_up_next(): hand one slot to the first pending waiter.
WakeUpNext(v, p) ==
    LET w == FirstPending(sem_waiters, p)
    IN  IF w = 0 THEN [value |-> v, pc |-> p]
        ELSE [value |-> v - 1, pc |-> [p EXCEPT ![w] = "woken"]]

\* release() that returns the slot but wakes nobody.
ReleaseNoWake(v, p) == [value |-> v + 1, pc |-> p]

\* Semaphore.release(), called by __aexit__ of `async with semaphore`.
Release(v, p) == WakeUpNext(v + 1, p)

----------------------------------------------------------------------------
\* Text is a sequence of one-character strings, so that str.strip,
\* str.lower, str.startswith and str.endswith work on characters.
Whitespace == {" ", "\t"}

RECURSIVE lstrip(_)
lstrip(s) == IF s # <<>> /\ Head(s) \in Whitespace THEN lstrip(Tail(s)) ELSE s

RECURSIVE rstrip(_)
rstrip(s) ==
    IF s # <<>> /\ s[Len(s)] \in Whitespace
    THEN rstrip(SubSeq(s, 1, Len(s) - 1))
    ELSE s

\* A strip that leaves the text as it is.
stripNothing(s) == s

\* str.strip()
strip(s) == rstrip(lstrip(s))

startswith(s, prefix) == Len(prefix) <= Len(s) /\ SubSeq(s, 1, Len(prefix)) = prefix

endswith(s, suffix) ==
    Len(suffix) <= Len(s) /\ SubSeq(s, Len(s) - Len(suffix) + 1, Len(s)) = suffix

\* The upper-case letters that occur in the filenames of the model.
LowerOf == ("P" :> "p") @@ ("D" :> "d") @@ ("F" :> "f") @@ ("A" :> "a")

\* str.lower()
lower(s) == [i \in 1..Len(s) |-> IF s[i] \in DOMAIN LowerOf THEN LowerOf[s[i]] ELSE s[i]]

----------------------------------------------------------------------------
\* pathlib on a POSIX tree without symbolic links.  A Path is the sequence
\* of its components below "/"; a component is a text.
RECURSIVE SplitAt(_, _)
SplitAt(s, cur) ==
    IF s = <<>> THEN <<cur>>
    ELSE IF Head(s) = "/" THEN <<cur>> \o SplitAt(Tail(s), <<>>)
    ELSE SplitAt(Tail(s), Append(cur, Head(s)))

\* The components of a path string, empty ones included.
Components(s) == SplitAt(s, <<>>)

\* Path.resolve() of an absolute path: "" and "." are dropped, ".." steps to
\* the parent, and the parent of "/" is "/".
RECURSIVE Normalised(_, _)
Normalised(todo, done) ==
    IF todo = <<>> THEN done
    ELSE LET c == Head(todo)
         IN  IF c = <<>> \/ c = <<".">> THEN Normalised(Tail(todo), done)
             ELSE IF c = <<".", ".">>
                  THEN Normalised(Tail(todo),
                                  IF done = <<>> THEN done
                                  ELSE SubSeq(done, 1, Len(done) - 1))
             ELSE Normalised(Tail(todo), Append(done, c))

resolve(parts) == Normalised(parts, <<>>)

\* str(path) of a resolved path
RECURSIVE JoinParts(_)
JoinParts(parts) ==
    IF parts = <<>> THEN <<>> ELSE <<"/">> \o Head(parts) \o JoinParts(Tail(parts))

PathStr(parts) == IF parts = <<>> THEN <<"/">> ELSE JoinParts(parts)

INGEST_DATA_PATH == <<"/", "d", "a", "t", "a">>

\* Directory names of the modelled tree.
NameData == <<"d", "a", "t", "a">>
NameData2 == <<"d", "a", "t", "a", "2">>
NameSub == <<"s", "u", "b">>
NameEmpty == <<"n", "i", "l">>
NameMany == <<"m", "a", "n", "y">>
NameEtc == <<"e", "t", "c">>
NameDot == <<".">>
NameDotDot == <<".", ".">>

\* Filenames of uploads and of the files in the tree.
NamePdf == <<"a", ".", "p", "d", "f">>
NameUpperPdf == <<"A", ".", "P", "D", "F">>
NameTxt == <<"a", ".", "t", "x", "t">>
NameBarePdf == <<"p", "d", "f">>

File(filename, size) == [filename |-> filename, size |-> size]

\* The directories that exist, parents before children, with the PDF files
\* each one holds itself: /data with its subdirectories sub, nil (no PDF)
\* and many (more files than one request may carry), the sibling /data2,
\* and /etc.
Tree ==
    << [dir |-> <<NameData>>, files |-> <<File(NamePdf, 1)>>],
       [dir |-> <<NameData, NameSub>>, files |-> <<File(NamePdf, 2)>>],
       [dir |-> <<NameData, NameEmpty>>, files |-> <<>>],
       [dir |-> <<NameData, NameMany>>,
        files |-> [i \in 1..MaxUploads |-> File(NamePdf, i)]],
       [dir |-> <<NameData2>>, files |-> <<File(NamePdf, 3)>>],
       [dir |-> <<NameEtc>>, files |-> <<>>] >>

\* resolved.exists() and resolved.is_dir()
is_dir(parts) == parts = <<>> \/ \E i \in DOMAIN Tree : Tree[i].dir = parts

\* Whether directory `parts` is `root` or lies below it, component by component.
Within(parts, root) == Len(root) <= Len(parts) /\ SubSeq(parts, 1, Len(root)) = root

\* resolved.glob("**/*.pdf"): the PDF files of the directory and of every
\* directory below it.
RECURSIVE GlobFrom(_, _)
GlobFrom(parts, i) ==
    IF i > Len(Tree) THEN <<>>
    ELSE (IF Within(Tree[i].dir, parts) THEN Tree[i].files ELSE <<>>)
         \o GlobFrom(parts, i + 1)

glob(parts) == GlobFrom(parts, 1)

\* Lines 59-66: the directory a path string stands for.
resolved_path(dir_path) ==
    LET base == resolve(Components(INGEST_DATA_PATH))
        path == strip(dir_path)
    IN  IF path = <<>> \/ path \in {<<".">>, <<"/">>} THEN base
        ELSE IF startswith(path, <<"/">>) THEN resolve(Components(path))
        ELSE resolve(base \o Components(path))

get_pdf_files_from_directory(dir_path) ==
    LET base == resolve(Components(INGEST_DATA_PATH))
        resolved == resolved_path(dir_path)
    IN  IF ~startswith(PathStr(resolved), PathStr(base))
        THEN [outcome |-> "traversal", files |-> <<>>]
        ELSE IF ~is_dir(resolved)
        THEN [outcome |-> "not found", files |-> <<>>]
        ELSE [outcome |-> "read", files |-> glob(resolved)]

\* Path strings: up to MaxDepth names, absolute or relative, bare or padded
\* with blanks.
PathNames == {NameData, NameData2, NameSub, NameEtc, NameDot, NameDotDot}

RECURSIVE JoinRelative(_)
JoinRelative(names) ==
    IF names = <<>> THEN <<>>
    ELSE IF Len(names) = 1 THEN Head(names)
    ELSE Head(names) \o <<"/">> \o JoinRelative(Tail(names))

NameLists == UNION {[1..n -> PathNames] : n \in 0..MaxDepth}

DirPaths ==
    {pad \o lead \o JoinRelative(names) \o pad :
        pad \in {<<>>, <<" ">>}, lead \in {<<>>, <<"/">>}, names \in NameLists}

----------------------------------------------------------------------------
\* The "input" fields of a multipart form: a text value or an uploaded file
\* with its filename and the length of its content.
Str(value) == [kind |-> "str", value |-> value]
Upload(filename, size) == [kind |-> "file", filename |-> filename, size |-> size]

\* Lines 61-75 of the route: every file-like field is checked in field
\* order; the first bad one ends the request.
RECURSIVE collect_uploads(_, _)
collect_uploads(fields, files) ==
    IF fields = <<>> THEN [detail |-> None, files |-> files]
    ELSE LET file == Head(fields)
         IN  IF file.kind # "file" THEN collect_uploads(Tail(fields), files)
             ELSE IF file.filename = <<>>
                     \/ ~endswith(lower(file.filename), <<".", "p", "d", "f">>)
                  THEN [detail |-> "Only PDF files are accepted.", files |-> <<>>]
             ELSE IF file.size > MAX_UPLOAD_SIZE
                  THEN [detail |-> "File too large.", files |-> <<>>]
             ELSE collect_uploads(Tail(fields),
                                  Append(files, File(file.filename, file.size)))

Rejected(detail) == [code |-> 400, detail |-> detail, job |-> FALSE, files |-> <<>>]
Accepted(files) == [code |-> 202, detail |-> None, job |-> TRUE, files |-> files]

\* Lines 29-79 of the route: what the handler decides before it creates a job.
validated(req) ==
    IF req = <<>> THEN Rejected("Missing 'input' field")
    ELSE IF req[1].kind = "str"
    THEN LET path == strip(req[1].value)
         IN  IF path = <<>> THEN Rejected("Directory path cannot be empty")
             ELSE LET got == get_pdf_files_from_directory(path)
                  IN  IF got.outcome # "read" THEN Rejected(got.outcome)
                      ELSE IF got.files = <<>>
                           THEN [code |-> 202, detail |-> "No PDF files found in directory.",
                                 job |-> FALSE, files |-> <<>>]
                      ELSE Accepted(got.files)
    ELSE LET got == collect_uploads(req, <<>>)
         IN  IF got.detail # None THEN Rejected(got.detail)
             ELSE IF got.files = <<>> THEN Rejected("No valid PDF files provided.")
             ELSE Accepted(got.files)

\* The call of get_pdf_files_from_directory a request leads to, if any.
directory_call(req) ==
    IF req # <<>> /\ req[1].kind = "str" /\ strip(req[1].value) # <<>>
    THEN LET path == strip(req[1].value)
             got == get_pdf_files_from_directory(path)
         IN  [path |-> path, outcome |-> got.outcome, files |-> got.files]
    ELSE dir_call

\* Requests: every list of up to MaxFields of these fields ...
Fields ==
    { Str(<<"/">> \o NameData \o <<"/">> \o NameSub),
      Upload(NamePdf, 1),
      Upload(NameTxt, 1),
      Upload(NameUpperPdf, MAX_UPLOAD_SIZE + 1) }

\* ... and a request of MaxUploads files, one for the directory of
\* MaxUploads files by its absolute and one by its relative path, one for a
\* directory without PDF files, one for a directory that does not exist,
\* one for a directory outside /data, one with a blank path, a
\* file of exactly the maximum size, a file without a filename, and a file
\* whose name is the extension without its dot.
LargeRequests ==
    { [i \in 1..MaxUploads |-> Upload(NamePdf, i)],
      <<Str(<<"/">> \o NameData \o <<"/">> \o NameMany)>>,
      <<Str(<<"/">> \o NameData \o <<"/">> \o NameEmpty)>>,
      <<Str(NameMany)>>,
      <<Str(NameEtc)>>,
      <<Str(<<"/">> \o NameEtc)>>,
      <<Str(<<" ">>)>>,
      <<Upload(NameUpperPdf, MAX_UPLOAD_SIZE)>>,
      <<Upload(<<>>, 1)>>,
      <<Upload(NameBarePdf, 1)>> }

Requests == UNION {[1..n -> Fields] : n \in 0..MaxFields} \cup LargeRequests

----------------------------------------------------------------------------
\* The search engine.  A candidate is a document chunk with its metadata and
\* its distance score.
Hit(metadata, page_content, score) ==
    [metadata |-> metadata, page_content |-> page_content, score |-> score]

\* What the index may return: a close chunk, a chunk exactly at the
\* threshold whose metadata names no source, and a distant chunk.
Hits ==
    { Hit([source |-> "a.pdf"], "alpha", 204),
      Hit(<<>>, "beta", SEARCH_SCORE_THRESHOLD),
      Hit([source |-> "b.pdf"], "gamma", 1800) }

HitLists == UNION {[1..n -> Hits] : n \in 0..MaxHits}

\* round(score_f, 2) for a score in thousandths that is not halfway between
\* two hundredths.
round2(score) == ((score + 5) \div 10) * 10

SearchResult(document, score, content) ==
    [document |-> document, score |-> score, content |-> content]

\* A filter that also drops a candidate exactly at the threshold.
RECURSIVE search_vectorstore_strict(_)
search_vectorstore_strict(hits) ==
    IF hits = <<>> THEN <<>>
    ELSE LET doc == Head(hits)
         IN  IF doc.score >= SEARCH_SCORE_THRESHOLD
             THEN search_vectorstore_strict(Tail(hits))
             ELSE <<SearchResult(IF "source" \in DOMAIN doc.metadata
                                 THEN doc.metadata.source ELSE "unknown",
                                 round2(doc.score), doc.page_content)>>
                  \o search_vectorstore_strict(Tail(hits))

\* search_vectorstore, from the candidates of similarity_search_with_score on
RECURSIVE search_vectorstore(_)
search_vectorstore(hits) ==
    IF hits = <<>> THEN <<>>
    ELSE LET doc == Head(hits)
         IN  IF doc.score > SEARCH_SCORE_THRESHOLD
             THEN search_vectorstore(Tail(hits))
             ELSE <<SearchResult(IF "source" \in DOMAIN doc.metadata
                                 THEN doc.metadata.source ELSE "unknown",
                                 round2(doc.score), doc.page_content)>>
                  \o search_vectorstore(Tail(hits))

\* The model SearchResponse declares the one field `results`; pydantic
\* ignores a keyword argument that is no declared field.
SearchResponse(results, message) == [results |-> results]

\* Query texts: empty, blank, and texts with and without blanks around them.
Queries ==
    { <<>>, <<" ">>, <<" ", "\t">>,
      <<"a">>, <<" ", "a">>, <<"a", " ">>, <<"\t", "a", " ">>, <<"a", " ", "a">> }

----------------------------------------------------------------------------
\* The worker's view of a file: its filename and the text its bytes hold,
\* as page text of a PDF or as plain text.
Pdf(filename, content) == [filename |-> filename, content |-> content]

\* extract_text_from_pdf: the page text, or after a failed parse the decoded
\* bytes (errors="replace" never raises), stripped.
extract_text_from_pdf(content) == strip(content)

\* _text_splitter.split_documents for a text shorter than CHUNK_SIZE: one chunk.
split_documents(text, filename) ==
    <<[page_content |-> text, metadata |-> [source |-> filename]]>>

\* A version that makes a chunk of every text, an empty one too.
process_pdf_to_documents_always(content, filename) ==
    split_documents(extract_text_from_pdf(content), filename)

\* process_pdf_to_documents
process_pdf_to_documents(content, filename) ==
    LET text == extract_text_from_pdf(content)
    IN  IF text = <<>> \/ strip(text) = <<>> THEN <<>>
        ELSE split_documents(text, filename)

\* File contents: no text, only whitespace, a word, and a word with blanks
\* around it.
Contents == { <<>>, <<" ", "\t">>, <<"a">>, <<" ", "a", " ">> }

TextLists == UNION {[1..n -> {Pdf(NamePdf, c) : c \in Contents}] : n \in 1..MaxTexts}

----------------------------------------------------------------------------
Init ==
    /\ job_status = <<>>
    /\ pc = [j \in JobIds |-> "idle"]
    /\ files_to_process = [j \in JobIds |-> <<>>]
    /\ idx = [j \in JobIds |-> 0]
    /\ ingested = [j \in JobIds |-> <<>>]
    /\ future = [j \in JobIds |-> FutPending]
    /\ sem_value = GateCapacity
    /\ sem_waiters = <<>>
    /\ worked = [j \in JobIds |-> <<>>]
    /\ acked = {}
    /\ poll = [id |-> UnknownId, code |-> 0, body |-> None]
    /\ seen = [id \in QueryIds |-> None]
    /\ written = [id \in JobIds |-> {}]
    /\ request = <<>>
    /\ response = [code |-> 0, job_id |-> None, files |-> <<>>]
    /\ dir_call = [path |-> <<>>, outcome |-> None, files |-> <<>>]
    /\ search_out = [query |-> <<>>, code |-> 0, body |-> None, asked |-> None,
                     hits |-> <<>>, busy |-> FALSE]

\* A handler that leaves the creation of the record to the background task.
ingestWithoutRecord(job_id, files) ==
    /\ files_to_process' = [files_to_process EXCEPT ![job_id] = files]
    /\ pc' = [pc EXCEPT ![job_id] = "queued"]
    /\ acked' = acked \cup {job_id}
    /\ response' = [code |-> 202, job_id |-> job_id, files |-> files]
    /\ UNCHANGED <<job_status, written, idx, ingested, future, worked, semVars, pollVars,
                   search_out>>

\* POST /ingest/ with a request that passes validation and carries `files`:
\* the record is created, the background task is registered, and the 202
\* acknowledgment with the job id is returned.  Starlette starts the
\* background task only after the response has been sent.
ingest(job_id, files) ==
    /\ Write(job_id, Record(PENDING, <<>>, None))
    /\ files_to_process' = [files_to_process EXCEPT ![job_id] = files]
    /\ pc' = [pc EXCEPT ![job_id] = "queued"]
    /\ acked' = acked \cup {job_id}
    /\ response' = [code |-> 202, job_id |-> job_id, files |-> files]
    /\ UNCHANGED <<idx, ingested, future, worked, semVars, pollVars, search_out>>

\* A first write that leaves the status at Pending.
StartRecordPending == Record(PENDING, <<>>, None)

\* The record run_background_ingest writes first.
StartRecord == Record(PROCESSING, <<>>, None)

\* run_background_ingest up to its first suspension point: the record
\* becomes Processing; `async with semaphore` takes a slot at once when the
\* semaphore is not locked and the first file goes to the worker pool,
\* otherwise the task queues as a waiter.
TaskStart(j) ==
    /\ pc[j] = "queued"
    /\ Write(j, StartRecord)
    /\ ingested' = [ingested EXCEPT ![j] = <<>>]
    /\ IF ~locked
       THEN /\ sem_value' = sem_value - 1
            /\ sem_waiters' = sem_waiters
            /\ pc' = [pc EXCEPT ![j] = "inflight"]
            /\ idx' = [idx EXCEPT ![j] = 1]
            /\ future' = [future EXCEPT ![j] = FutPending]
       ELSE /\ sem_waiters' = Append(sem_waiters, j)
            /\ pc' = [pc EXCEPT ![j] = "acquiring"]
            /\ UNCHANGED <<sem_value, idx, future>>
    /\ UNCHANGED <<files_to_process, worked, acked, pollVars, response, clientVars>>

\* acquire() resumes in a woken waiter: it leaves _waiters, passes a spare
\* slot on if there is one, and the task enters the loop.
AcquireResume(j) ==
    /\ pc[j] = "woken"
    /\ LET rest == SelectSeq(sem_waiters, LAMBDA w : w # j)
           woke == IF sem_value > 0
                   THEN LET w == FirstPending(rest, pc)
                        IN  IF w = 0 THEN [value |-> sem_value, pc |-> pc]
                            ELSE [value |-> sem_value - 1,
                                  pc |-> [pc EXCEPT ![w] = "woken"]]
                   ELSE [value |-> sem_value, pc |-> pc]
       IN  /\ sem_waiters' = rest
           /\ sem_value' = woke.value
           /\ pc' = [woke.pc EXCEPT ![j] = "inflight"]
    /\ idx' = [idx EXCEPT ![j] = 1]
    /\ future' = [future EXCEPT ![j] = FutPending]
    /\ UNCHANGED <<job_status, written, files_to_process, ingested, worked, acked, pollVars, response, clientVars>>

\* _process_and_store_pdf in a worker thread: extraction, chunking and the
\* store call for the file in flight either return or raise an exception
\* whose string form is in `raised`.
WorkerRun(j, raised) ==
    /\ pc[j] = "inflight"
    /\ future[j] = FutPending
    /\ \E outcome \in {FutOk} \cup raised :
           /\ future' = [future EXCEPT ![j] = outcome]
           /\ worked' = [worked EXCEPT ![j] =
                  Append(@, [file |-> files_to_process[j][idx[j]], outcome |-> outcome])]
    /\ UNCHANGED <<job_status, written, pc, files_to_process, idx, ingested,
                   semVars, acked, pollVars, response, clientVars>>

\* insert(0, filename) in place of append.
Prepended(list, filename) == <<filename>> \o list

\* ingested.append(filename)
Appended(list, filename) == Append(list, filename)

\* `async with semaphore` left at the end of its block.
AExit(v, p) == Release(v, p)

\* A slot taken by hand and not given back on the early return.
AExitLeak(v, p) == [value |-> v, pc |-> p]

\* `async with semaphore` left by the `return` of the except branch.
AExitOnReturn(v, p) == Release(v, p)

\* The awaited file returned: its name is appended to `ingested`; the next
\* file goes to the worker pool, or after the last one the slot is released
\* and the record becomes Completed.
FileSucceeded(j) ==
    /\ pc[j] = "inflight"
    /\ future[j] = FutOk
    /\ LET done == Appended(ingested[j], files_to_process[j][idx[j]])
       IN  /\ ingested' = [ingested EXCEPT ![j] = done]
           /\ IF idx[j] < Len(files_to_process[j])
              THEN /\ idx' = [idx EXCEPT ![j] = @ + 1]
                   /\ future' = [future EXCEPT ![j] = FutPending]
                   /\ UNCHANGED <<job_status, written, pc, semVars>>
              ELSE LET rel == AExit(sem_value, pc)
                   IN  /\ sem_value' = rel.value
                       /\ pc' = [rel.pc EXCEPT ![j] = "done"]
                       /\ Write(j, Record(COMPLETED, done, None))
                       /\ UNCHANGED <<sem_waiters, idx, future>>
    /\ UNCHANGED <<files_to_process, worked, acked, pollVars, response, clientVars>>

\* The failure is recorded but the loop goes on to the next file.
FileFailedContinue(j) ==
    /\ pc[j] = "inflight"
    /\ future[j] \in ExceptionStrs
    /\ Write(j, Record(FAILED, ingested[j], future[j]))
    /\ IF idx[j] < Len(files_to_process[j])
       THEN /\ idx' = [idx EXCEPT ![j] = @ + 1]
            /\ future' = [future EXCEPT ![j] = FutPending]
            /\ UNCHANGED <<pc, sem_value>>
       ELSE LET rel == Release(sem_value, pc)
            IN  /\ sem_value' = rel.value
                /\ pc' = [rel.pc EXCEPT ![j] = "done"]
                /\ UNCHANGED <<idx, future>>
    /\ UNCHANGED <<files_to_process, ingested, sem_waiters, worked, acked, pollVars, response, clientVars>>

\* A failure that aborts every job in progress: each Processing record
\* becomes Failed.
FileFailedAbortsAll(j) ==
    /\ pc[j] = "inflight"
    /\ future[j] \in ExceptionStrs
    /\ job_status' = [k \in DOMAIN job_status |->
                         IF k = j \/ job_status[k].status = PROCESSING
                         THEN Record(FAILED, ingested[k], future[j])
                         ELSE job_status[k]]
    /\ written' = [k \in JobIds |->
                      IF k \in DOMAIN job_status
                      THEN written[k] \cup {job_status'[k]} ELSE written[k]]
    /\ LET rel == AExitOnReturn(sem_value, pc)
       IN  /\ sem_value' = rel.value
           /\ pc' = [rel.pc EXCEPT ![j] = "done"]
    /\ UNCHANGED <<files_to_process, idx, ingested, future, sem_waiters,
                   worked, acked, pollVars, response, clientVars>>

\* The awaited file raised: the record becomes Failed with the files
\* finished so far and str(e); the return leaves `async with`, which
\* releases the slot.
FileFailed(j) ==
    /\ pc[j] = "inflight"
    /\ future[j] \in ExceptionStrs
    /\ Write(j, Record(FAILED, ingested[j], future[j]))
    /\ LET rel == AExitOnReturn(sem_value, pc)
       IN  /\ sem_value' = rel.value
           /\ pc' = [rel.pc EXCEPT ![j] = "done"]
    /\ UNCHANGED <<files_to_process, idx, ingested, future, sem_waiters,
                   worked, acked, pollVars, response, clientVars>>

\* A lookup with a default record for an unknown id.
ingest_status_default(job_id) ==
    /\ LET info == IF job_id \in DOMAIN job_status THEN job_status[job_id]
                   ELSE Record(PENDING, <<>>, None)
       IN  /\ poll' = [id |-> job_id, code |-> 200, body |-> info]
           /\ seen' = [seen EXCEPT ![job_id] = info.status]
    /\ UNCHANGED <<job_status, written, taskVars, semVars, acked, response, clientVars>>

\* A response put together from the stored status and default fields.
ingest_status_torn(job_id) ==
    /\ IF job_id \notin DOMAIN job_status
       THEN /\ poll' = [id |-> job_id, code |-> 404, body |-> None]
            /\ seen' = seen
       ELSE /\ poll' = [id |-> job_id, code |-> 200,
                        body |-> Record(job_status[job_id].status, <<>>, None)]
            /\ seen' = [seen EXCEPT ![job_id] = job_status[job_id].status]
    /\ UNCHANGED <<job_status, written, taskVars, semVars, acked, response, clientVars>>

\* GET /ingest/status/{job_id}
ingest_status(job_id) ==
    /\ IF job_id \notin DOMAIN job_status
       THEN /\ poll' = [id |-> job_id, code |-> 404, body |-> None]
            /\ seen' = seen
       ELSE /\ poll' = [id |-> job_id, code |-> 200, body |-> job_status[job_id]]
            /\ seen' = [seen EXCEPT ![job_id] = job_status[job_id].status]
    /\ UNCHANGED <<job_status, written, taskVars, semVars, acked, response, clientVars>>

\* The steps of the task of job j that do not depend on a full gate.
TaskSteps(j, raised) ==
    \/ TaskStart(j)
    \/ WorkerRun(j, raised)
    \/ FileSucceeded(j)
    \/ FileFailed(j)

Task(j, raised) ==
    \/ TaskSteps(j, raised)
    \/ AcquireResume(j)

\* Submissions of one workload: at most maxJobs jobs of at most maxLen files.
Submit(maxJobs, maxLen) ==
    \E job_id \in uuid4 \cap (1..maxJobs) : \E files \in FileLists(maxLen) :
        ingest(job_id, files) /\ UNCHANGED <<request, dir_call>>

Query == \E job_id \in QueryIds : ingest_status(job_id)

\* Many single-file jobs competing for the gate; a failing file raises an
\* exception with a message.
Next ==
    \/ Submit(MaxJobs, 1)
    \/ \E j \in JobIds : Task(j, {"boom"})

Spec == Init /\ [][Next]_vars

\* The event loop runs every task that is ready and every worker thread
\* finishes its call (an extraction or store call that never returns is the
\* accepted limitation of section 5 and is excluded).
Fairness == WF_vars(\E j \in JobIds : Task(j, {"boom"}))

SpecLive == Spec /\ Fairness

\* Few jobs with long file lists.  With no more jobs than slots the gate is
\* never locked, so no task ever queues and none resumes from the queue.
NextFiles ==
    \/ Submit(FewJobs, MaxFiles)
    \/ \E j \in JobIds : TaskSteps(j, ExceptionStrs)

SpecFiles == Init /\ [][NextFiles]_vars

\* Single-file uploads watched by status queries, as the test suite does;
\* again no more jobs than slots.
NextPoll ==
    \/ Submit(PollJobs, 1)
    \/ \E j \in JobIds : TaskSteps(j, ExceptionStrs)
    \/ Query

SpecPoll == Init /\ [][NextPoll]_vars

\* The job store on its own: line 82 of the ingest route assigns the Pending
\* record without looking the id up, so it is exercised here with ids that
\* uuid4 may give again, at most MaxReuse times each, once the earlier job
\* of that id has finished.
NextStore ==
    \/ \E job_id \in 1..PollJobs : \E files \in FileLists(1) :
           /\ pc[job_id] \in {"idle", "done"}
           /\ Len(worked[job_id]) <= MaxReuse
           /\ ingest(job_id, files)
           /\ UNCHANGED <<request, dir_call>>
    \/ \E j \in JobIds : TaskSteps(j, ExceptionStrs)

SpecStore == Init /\ [][NextStore]_vars

\* get_pdf_files_from_directory called on its own.
CallDirectory ==
    /\ \E dir_path \in DirPaths :
           LET got == get_pdf_files_from_directory(dir_path)
           IN  dir_call' = [path |-> dir_path, outcome |-> got.outcome,
                            files |-> got.files]
    /\ UNCHANGED <<job_status, written, taskVars, semVars, acked, pollVars,
                   request, response, search_out>>

SpecPath == Init /\ [][CallDirectory]_vars

\* A handler that creates the job record before it validates the request.
post_ingest_record_first(req) ==
    LET v == validated(req)
    IN  /\ request' = req
        /\ dir_call' = directory_call(req)
        /\ \E job_id \in uuid4 \cap (1..SubmitJobs) :
               IF v.job
               THEN ingest(job_id, v.files)
               ELSE /\ Write(job_id, Record(PENDING, <<>>, None))
                    /\ response' = [code |-> v.code, job_id |-> None, files |-> <<>>]
                    /\ UNCHANGED <<taskVars, semVars, acked, pollVars, search_out>>

\* POST /ingest/, the whole handler: the request is validated (lines 29-79)
\* and only then a job is created and its task registered (lines 81-97).
post_ingest(req) ==
    LET v == validated(req)
    IN  /\ request' = req
        /\ dir_call' = directory_call(req)
        /\ IF v.job
           THEN \E job_id \in uuid4 \cap (1..SubmitJobs) : ingest(job_id, v.files)
           ELSE /\ response' = [code |-> v.code, job_id |-> None, files |-> <<>>]
                /\ UNCHANGED <<job_status, written, taskVars, semVars, acked,
                               pollVars, search_out>>

\* Requests arriving one after another; the background tasks are left out,
\* so every step is one request.
NextSubmit == \E req \in Requests : post_ingest(req)

SpecSubmit == Init /\ [][NextSubmit]_vars

\* The gate as a request finds it: every slot taken and a task waiting.
GateBusy == sem_value = 0 /\ \E j \in JobIds : pc[j] = "acquiring"

\* A handler that takes a slot of the ingest gate for the time of the
\* search, and so can run only when the gate is not locked.
search_gated(q, hits, raises) ==
    /\ ~locked
    /\ search_out' = [query |-> q, code |-> 200,
                      body |-> SearchResponse(search_vectorstore(hits), None),
                      asked |-> strip(q), hits |-> hits, busy |-> GateBusy]
    /\ UNCHANGED <<job_status, written, taskVars, semVars, acked, pollVars,
                   request, response, dir_call>>

\* POST /search/ with query text q, for which the index, if asked, raises or
\* returns `hits`.  The handler has no await and uses neither the semaphore
\* nor the worker pool: it is one step of the event loop.  History: `busy`
\* notes how the request found the gate.
search(q, hits, raises) ==
    /\ LET query == strip(q)
       IN  IF query = <<>>
           THEN search_out' = [query |-> q, code |-> 400, body |-> None,
                               asked |-> None, hits |-> <<>>, busy |-> GateBusy]
           ELSE IF raises
           THEN search_out' = [query |-> q, code |-> 500, body |-> None,
                               asked |-> query, hits |-> <<>>, busy |-> GateBusy]
           ELSE LET results == search_vectorstore(hits)
                    message == IF results = <<>> THEN "No relevant documents found."
                               ELSE None
                IN  search_out' = [query |-> q, code |-> 200,
                                   body |-> SearchResponse(results, message),
                                   asked |-> query, hits |-> hits, busy |-> GateBusy]
    /\ UNCHANGED <<job_status, written, taskVars, semVars, acked, pollVars,
                   request, response, dir_call>>

NextSearch == \E q \in Queries : \E hits \in HitLists : \E raises \in BOOLEAN :
                  search(q, hits, raises)

SpecSearch == Init /\ [][NextSearch]_vars

\* Searches that arrive while single-file jobs compete for the gate: a blank
\* query and a query for which the index returns one chunk.
SearchDuringIngest ==
    \E q \in {<<" ">>, <<"a">>} :
        search(q, <<Hit([source |-> "a.pdf"], "alpha", 204)>>, FALSE)

NextBusy ==
    \/ Submit(MaxJobs, 1)
    \/ \E j \in JobIds : Task(j, {"boom"})
    \/ SearchDuringIngest

SpecBusy == Init /\ [][NextBusy]_vars

\* _process_and_store_pdf in a worker thread, for a file whose content is
\* known: the chunks are made; without chunks the call returns at once, with
\* chunks vectorstore.add_documents is called and returns or raises.  The
\* history notes the number of add_documents calls.
WorkerRunText(j, raised) ==
    /\ pc[j] = "inflight"
    /\ future[j] = FutPending
    /\ LET file == files_to_process[j][idx[j]]
           documents == process_pdf_to_documents(file.content, file.filename)
       IN  \E outcome \in IF documents = <<>> THEN {FutOk} ELSE {FutOk} \cup raised :
               /\ future' = [future EXCEPT ![j] = outcome]
               /\ worked' = [worked EXCEPT ![j] =
                      Append(@, [file |-> file, outcome |-> outcome,
                                 calls |-> IF documents = <<>> THEN 0 ELSE 1])]
    /\ UNCHANGED <<job_status, written, pc, files_to_process, idx, ingested,
                   semVars, acked, pollVars, response, clientVars>>

\* Jobs whose files have contents, among them files without text.
NextText ==
    \/ \E job_id \in uuid4 \cap (1..SubmitJobs) : \E files \in TextLists :
           ingest(job_id, files) /\ UNCHANGED <<request, dir_call>>
    \/ \E j \in JobIds : \/ TaskStart(j)
                         \/ WorkerRunText(j, ExceptionStrs)
                         \/ FileSucceeded(j)
                         \/ FileFailed(j)

SpecText == Init /\ [][NextText]_vars

----------------------------------------------------------------------------
\* Vocabulary of the properties.

Terminal(j) == j \in DOMAIN job_status /\ job_status[j].status \in {COMPLETED, FAILED}

\* The task of job j is between acquiring and releasing the gate.
Active(j) == pc[j] = "inflight"

\* The task of job j has started and has not finished.
Running(j) == pc[j] \in {"acquiring", "woken", "inflight"}

\* Position of the first file of job j whose processing raised, or 0.
FirstFailure(j) ==
    LET bad == {k \in 1..Len(worked[j]) : worked[j][k].outcome # FutOk}
    IN  IF bad = {} THEN 0 ELSE CHOOSE k \in bad : \A m \in bad : k <= m

\* Order of the statuses in a job's life.
Rank(status) ==
    CASE status = None -> 0
      [] status = PENDING -> 1
      [] status = PROCESSING -> 2
      [] status \in {COMPLETED, FAILED} -> 3

----------------------------------------------------------------------------
\* C1: with more jobs submitted than the gate has slots, under every
\* interleaving, at most GateCapacity (4) jobs are between acquiring and
\* releasing the gate at any instant.
C1_AtMostFourActive == Cardinality({j \in JobIds : Active(j)}) <= GateCapacity

\* All four slots are taken and a fifth job is waiting for one.
C1_Witness ==
    /\ Cardinality({j \in JobIds : Active(j)}) = GateCapacity
    /\ \E j \in JobIds : pc[j] = "acquiring"

\* C2: when file i is the first file of a job whose processing raises, no
\* later file of the job is ever given to a worker, and the finished job's
\* record is Failed with files = the files before i, in submission order.
C2_FailFast ==
    \A j \in JobIds :
        LET i == FirstFailure(j)
        IN  i # 0 =>
              /\ Len(worked[j]) = i
              /\ pc[j] = "done" =>
                    /\ job_status[j].status = FAILED
                    /\ job_status[j].files = SubSeq(files_to_process[j], 1, i - 1)

\* A finished job of three files or more whose second file failed.
C2_Witness ==
    \E j \in JobIds :
        /\ pc[j] = "done"
        /\ Len(files_to_process[j]) >= 3
        /\ files_to_process[j][1] > files_to_process[j][2]
        /\ FirstFailure(j) = 2

\* C3: a finished job none of whose files failed has the record Completed,
\* files = the submitted filenames in submission order, error = none.
C3_AllSucceed ==
    \A j \in JobIds :
        (pc[j] = "done" /\ FirstFailure(j) = 0) =>
            job_status[j] = Record(COMPLETED, files_to_process[j], None)

\* A finished job of several files, submitted in descending order, all fine.
C3_Witness ==
    \E j \in JobIds :
        /\ pc[j] = "done"
        /\ FirstFailure(j) = 0
        /\ Len(files_to_process[j]) >= 2
        /\ files_to_process[j][1] > files_to_process[j][2]

\* C4: once a record is Completed or Failed, no step of any task and no
\* request changes its status, files or error.
C4_TerminalIsFinal ==
    [][\A j \in JobIds :
           Terminal(j) => (j \in DOMAIN job_status' /\ job_status'[j] = job_status[j])]_vars

\* One job is terminal while another job is still being worked on and a
\* status query has been answered.
C4_Witness ==
    \E j, k \in JobIds :
        /\ Terminal(j)
        /\ Running(k)
        /\ poll.code = 200

\* C5: a record is created Pending and then only goes Pending -> Processing,
\* Processing -> Completed or Processing -> Failed; successive status
\* queries for one id never see an earlier status after a later one, nor
\* one terminal status after the other.
C5_StatusOrder ==
    [][/\ \A j \in DOMAIN job_status' :
              IF j \notin DOMAIN job_status
              THEN job_status'[j].status = PENDING
              ELSE \/ job_status'[j].status = job_status[j].status
                   \/ <<job_status[j].status, job_status'[j].status>> \in
                          {<<PENDING, PROCESSING>>, <<PROCESSING, COMPLETED>>,
                           <<PROCESSING, FAILED>>}
       /\ \A id \in QueryIds :
              \/ seen'[id] = seen[id]
              \/ Rank(seen'[id]) > Rank(seen[id])]_vars

\* A poller that saw Pending for a job now has its terminal status:
\* Processing was skipped.
C5_Witness ==
    \E j \in JobIds :
        /\ seen[j] = PENDING
        /\ Terminal(j)
        /\ poll.id # j

\* C6: the slot of a job is given back on every way out of
\* run_background_ingest: whenever no task is running, all GateCapacity
\* slots are free and nobody is queued.
C6_NoSlotLeak ==
    (\A j \in JobIds : ~Running(j)) =>
        (sem_value = GateCapacity /\ sem_waiters = <<>>)

\* More jobs than slots have all finished, one of them by a failure.
C6_Witness ==
    /\ \A j \in JobIds : pc[j] = "done"
    /\ \E j \in JobIds : job_status[j].status = FAILED
    /\ \E j \in JobIds : job_status[j].status = COMPLETED
    /\ sem_value = GateCapacity

\* C7: every Failed record carries a non-empty error description.
C7_FailedHasDescription ==
    \A j \in DOMAIN job_status :
        job_status[j].status = FAILED => job_status[j].error \notin {None, ""}

\* C8: under fair scheduling, with every worker call returning or raising,
\* all accepted jobs are again and again all terminal: each accepted job
\* reaches Completed or Failed, also one that had to wait for a slot.
C8_EveryJobEnds == []<>(\A j \in acked : Terminal(j))

\* More jobs than slots were accepted and all are terminal.
C8_Witness ==
    /\ acked = JobIds
    /\ Cardinality(acked) > GateCapacity
    /\ \A j \in acked : Terminal(j)
    /\ sem_waiters = <<>>

\* C9: a status query for an id that no accepted submission has returned
\* answers 404 and leaves the job store as it was.
C9_UnknownIsNotFound ==
    [][\A id \in QueryIds :
           (ingest_status(id) /\ id \notin acked) =>
               (poll'.code = 404 /\ job_status' = job_status)]_vars

\* The unknown id was answered 404 while the store holds records.
C9_Witness ==
    /\ poll = [id |-> UnknownId, code |-> 404, body |-> None]
    /\ DOMAIN job_status # {}

\* C10: the step that acknowledges a submission has created the record
\* (Pending, no files, no error) with the task not yet started, and every
\* status query for an acknowledged id answers 200 with the stored record.
C10_AckedIsFound ==
    [][/\ \A j \in acked' \ acked :
              /\ j \in DOMAIN job_status'
              /\ job_status'[j] = Record(PENDING, <<>>, None)
              /\ pc'[j] = "queued"
       /\ \A id \in QueryIds :
              (ingest_status(id) /\ id \in acked) =>
                  (poll'.code = 200 /\ poll'.body = job_status[id])]_vars

\* A query between the acknowledgment and the start of the task found the
\* Pending record.
C10_Witness ==
    \E j \in acked :
        /\ pc[j] = "queued"
        /\ poll = [id |-> j, code |-> 200, body |-> Record(PENDING, <<>>, None)]

\* C11: a request answered with a client error leaves the job store as it
\* was and registers no background task: no record, no queued task, no
\* file list and no acknowledged id is added.
C11_RejectionChangesNothing ==
    [][response'.code = 400 =>
          /\ job_status' = job_status
          /\ pc' = pc
          /\ files_to_process' = files_to_process
          /\ acked' = acked]_vars

\* After one job was accepted, a request whose second file has a bad type
\* was rejected, and the store still holds exactly the first job.
C11_Witness ==
    /\ request = <<Upload(NamePdf, 1), Upload(NameTxt, 1)>>
    /\ response.code = 400
    /\ DOMAIN job_status = {1}
    /\ pc[1] = "queued"

\* The number of files a request submits: its uploaded files, or the PDF
\* files of the directory it names.
FileCount(req) ==
    IF req = <<>> THEN 0
    ELSE IF req[1].kind = "str"
    THEN Len(get_pdf_files_from_directory(strip(req[1].value)).files)
    ELSE Cardinality({i \in DOMAIN req : req[i].kind = "file"})

\* C12: a request of more than MAX_FILES_PER_UPLOAD files, uploaded or
\* found in the directory it names, is answered with 400 and gets no job.
C12_TooManyFilesRejected ==
    FileCount(request) > MAX_FILES_PER_UPLOAD =>
        response.code = 400 /\ response.job_id = None

\* An upload the route must not accept.
BadUpload(file) ==
    \/ ~endswith(lower(file.filename), <<".", "p", "d", "f">>)
    \/ file.size > MAX_UPLOAD_SIZE

\* C13: a request with an uploaded file of a wrong type or of more than
\* MAX_UPLOAD_SIZE bytes, at whatever position among its fields, is
\* answered with 400 and none of its files is queued.
C13_BadUploadRejectsRequest ==
    (\E i \in DOMAIN request : request[i].kind = "file" /\ BadUpload(request[i])) =>
        response.code = 400 /\ response.files = <<>>

\* C14: whenever get_pdf_files_from_directory reads a directory, the path it
\* resolved is /data or a directory below /data; every other path is
\* rejected and nothing is read.
C14_ReadsOnlyInsideRoot ==
    dir_call.outcome = "read" =>
        Within(resolved_path(dir_call.path), resolve(Components(INGEST_DATA_PATH)))

\* The candidates within the threshold, in the order received.
Kept(hits) == SelectSeq(hits, LAMBDA doc : doc.score <= SEARCH_SCORE_THRESHOLD)

\* C15: the results of a search are exactly the candidates whose score is at
\* most the threshold, in the order the index returned them, each with its
\* own source document and text; no candidate above the threshold appears.
C15_KeepsWithinThreshold ==
    search_out.code = 200 =>
        LET results == search_out.body.results
            kept == Kept(search_out.hits)
        IN  /\ Len(results) = Len(kept)
            /\ \A i \in 1..Len(kept) :
                   /\ results[i].content = kept[i].page_content
                   /\ "source" \in DOMAIN kept[i].metadata =>
                          results[i].document = kept[i].metadata.source

\* The index returned a distant chunk, then one exactly at the threshold,
\* then a close one: the last two are the results.
C15_Witness ==
    /\ search_out.code = 200
    /\ Len(search_out.hits) = 3
    /\ search_out.hits[1].score > SEARCH_SCORE_THRESHOLD
    /\ search_out.hits[2].score = SEARCH_SCORE_THRESHOLD
    /\ search_out.hits[3].score < SEARCH_SCORE_THRESHOLD
    /\ Len(search_out.body.results) = 2
    /\ search_out.body.results[2].document = "a.pdf"

\* C16: a search whose query is empty or all whitespace is answered with 400
\* and the index is not asked.
C16_BlankQueryRejected ==
    (search_out.code # 0 /\ \A i \in DOMAIN search_out.query :
                                 search_out.query[i] \in Whitespace) =>
        search_out.code = 400 /\ search_out.asked = None

\* A query of a blank and a tab was rejected.
C16_Witness ==
    /\ search_out.query = <<" ", "\t">>
    /\ search_out.code = 400
    /\ search_out.asked = None

\* C17: a search that ends with no result answers with an empty result list
\* and with the message "No relevant documents found." in its body.
C17_EmptyResultHasMessage ==
    (search_out.code = 200 /\ search_out.body.results = <<>>) =>
        /\ "message" \in DOMAIN search_out.body
        /\ search_out.body.message = "No relevant documents found."

\* C18: in every reachable state the files of a job's record are the
\* filenames the job has processed so far, also while it is Processing.
C18_FilesSoFar ==
    \A j \in DOMAIN job_status : job_status[j].files = ingested[j]

\* C19: creating the record of an id that is already in the job store leaves
\* the existing record as it was.
C19_CreateKeepsExisting ==
    [][\A id \in JobIds : \A files \in FileLists(1) :
           (id \in DOMAIN job_status /\ ingest(id, files)) =>
               job_status'[id] = job_status[id]]_vars

\* C20: the record a status query returns is, as a whole, one of the records
\* written for that id: status, files and error never come from two writes.
C20_NoTornRead ==
    poll.code = 200 => poll.body \in written[poll.id]

\* A query answered with the third record written for its id, a Failed one.
C20_Witness ==
    /\ poll.code = 200
    /\ poll.body.status = FAILED
    /\ poll.body.error # None
    /\ Cardinality(written[poll.id]) = 3

\* The file of job j that is in the worker pool and has not returned, or 0.
InFlight(j) == IF pc[j] = "inflight" /\ future[j] = FutPending THEN idx[j] ELSE 0

\* C21: the files of one job go to the worker pool in submission order and
\* one at a time: the calls made so far are for the first files of the
\* submission in order, every call but the last returned without error, and
\* a file in flight is the one right after the files that have returned.
C21_OneFileAtATime ==
    \A j \in JobIds :
        /\ Len(worked[j]) <= Len(files_to_process[j])
        /\ \A k \in 1..Len(worked[j]) :
               /\ worked[j][k].file = files_to_process[j][k]
               /\ k < Len(worked[j]) => worked[j][k].outcome = FutOk
        /\ InFlight(j) # 0 =>
               /\ Len(worked[j]) = InFlight(j) - 1
               /\ ingested[j] = SubSeq(files_to_process[j], 1, InFlight(j) - 1)

\* The third file of a job submitted in descending order is in flight after
\* the first two have returned.
C21_Witness ==
    \E j \in JobIds :
        /\ InFlight(j) = 3
        /\ files_to_process[j][1] > files_to_process[j][2]
        /\ Len(worked[j]) = 2

\* Job j holds a slot of the gate: its task is inside `async with semaphore`
\* and the slots taken from the semaphore account for every such task.
HoldsSlot(j) ==
    /\ Active(j)
    /\ Cardinality({k \in JobIds : Active(k)}) <= GateCapacity - sem_value

\* C22: a worker processes a file of a job only in a step that starts with
\* the job holding a gate slot and its record Processing; nothing is
\* processed for a job that is Pending, Completed or Failed.
C22_WorkOnlyInsideGate ==
    [][\A j \in JobIds :
           worked'[j] # worked[j] =>
               /\ HoldsSlot(j)
               /\ j \in DOMAIN job_status
               /\ job_status[j].status = PROCESSING]_vars

\* A job whose record is already Processing waits for a slot and nothing of
\* it has been processed, while a job holding a slot has had a file processed.
C22_Witness ==
    /\ \E j \in JobIds :
           /\ pc[j] = "acquiring"
           /\ job_status[j].status = PROCESSING
           /\ worked[j] = <<>>
    /\ \E k \in JobIds : HoldsSlot(k) /\ worked[k] # <<>>

\* A text of nothing but whitespace.
Blank(text) == \A i \in DOMAIN text : text[i] \in Whitespace

\* C23: for a file whose text is empty or all whitespace the worker makes no
\* add_documents call and returns without error; once the task has seen the
\* call return, the file is in the processed list at its position, and a
\* job of such files only ends Completed.
C23_BlankFileCounts ==
    \A j \in JobIds : \A k \in 1..Len(worked[j]) :
        Blank(worked[j][k].file.content) =>
            /\ worked[j][k].calls = 0
            /\ worked[j][k].outcome = FutOk
            /\ (idx[j] > k \/ pc[j] = "done") =>
                   /\ Len(ingested[j]) >= k
                   /\ ingested[j][k] = files_to_process[j][k]
            /\ (pc[j] = "done" /\ \A m \in 1..Len(files_to_process[j]) :
                                      Blank(files_to_process[j][m].content)) =>
                   job_status[j] = Record(COMPLETED, files_to_process[j], None)

\* A finished job whose first file had only whitespace and whose second had
\* text: one add_documents call, both files processed.
C23_Witness ==
    \E j \in JobIds :
        /\ pc[j] = "done"
        /\ Len(worked[j]) = 2
        /\ worked[j][1].file.content = <<" ", "\t">>
        /\ worked[j][1].calls = 0
        /\ worked[j][2].calls = 1
        /\ job_status[j] = Record(COMPLETED, files_to_process[j], None)

\* The terminal status the files of job k alone call for.
OwnStatus(k) == IF FirstFailure(k) = 0 THEN COMPLETED ELSE FAILED

\* C24: the step that records the failure of a file of job j leaves the
\* record, the file list and the processed list of every other job as they
\* were, and every acknowledged job, whatever happened to the others, still
\* reaches the terminal status its own files call for.
C24_FailureIsLocal ==
    /\ [][\A j \in JobIds :
              FileFailed(j) =>
                  \A k \in JobIds \ {j} :
                      /\ k \in DOMAIN job_status => job_status'[k] = job_status[k]
                      /\ files_to_process'[k] = files_to_process[k]
                      /\ ingested'[k] = ingested[k]]_vars
    /\ []<>(\A k \in acked : Terminal(k) /\ job_status[k].status = OwnStatus(k))

\* One job has failed while another holds a slot, still Processing, and a
\* further one has completed.
C24_Witness ==
    \E j, k, l \in DOMAIN job_status :
        /\ job_status[j].status = FAILED
        /\ Active(k) /\ job_status[k].status = PROCESSING
        /\ job_status[l].status = COMPLETED

\* The request names, as its first field, a directory that exists at or
\* below /data and holds no PDF file, itself or further down.
NamesEmptyDirectory(req) ==
    /\ req # <<>>
    /\ req[1].kind = "str"
    /\ ~Blank(req[1].value)
    /\ LET dir == resolved_path(req[1].value)
       IN  /\ Within(dir, resolve(Components(INGEST_DATA_PATH)))
           /\ is_dir(dir)
           /\ \A n \in DOMAIN Tree : Within(Tree[n].dir, dir) => Tree[n].files = <<>>

\* C25: a request for a valid directory without PDF files is answered 202
\* with no job id and no files; it adds no record, queues no task and
\* acknowledges no job.
C25_EmptyDirectoryAcknowledged ==
    [][NamesEmptyDirectory(request') =>
          /\ response' = [code |-> 202, job_id |-> None, files |-> <<>>]
          /\ job_status' = job_status
          /\ pc' = pc
          /\ files_to_process' = files_to_process
          /\ acked' = acked]_vars

\* After a job was accepted, a request for the directory without PDF files
\* was acknowledged with no job id; the store holds the first job only.
C25_Witness ==
    /\ NamesEmptyDirectory(request)
    /\ response = [code |-> 202, job_id |-> None, files |-> <<>>]
    /\ DOMAIN job_status = {1}
    /\ acked = {1}

\* C26: a search can always run, also while every slot of the gate is taken
\* and a job waits for one, and the step of a search leaves the job store,
\* the semaphore and every ingest task as they were.
C26_SearchIgnoresGate ==
    /\ [](ENABLED SearchDuringIngest)
    /\ [][search_out' # search_out =>
              /\ job_status' = job_status
              /\ sem_value' = sem_value
              /\ sem_waiters' = sem_waiters
              /\ pc' = pc]_vars

\* A search was answered 200 at a moment when all slots were taken and a job
\* was waiting; the gate is still in that state.
C26_Witness ==
    /\ search_out.code = 200
    /\ search_out.busy
    /\ sem_value = 0
    /\ Cardinality({j \in JobIds : Active(j)}) = GateCapacity
    /\ \E j \in JobIds : pc[j] = "acquiring"

====
